---- MODULE Spec2Model ----
(***************************************************************************)
(* A model of the cometd client of src/src/client.rs: the session state    *)
(* (client_id, cookies, max_retries, actual_retries), the public           *)
(* operations (init, connect, disconnect, subscribe, unsubscribe, publish) *)
(* and the advice-driven retry machinery (retry, retry_handshake,          *)
(* handle_advice, handle_error, handle_response).                          *)
(*                                                                         *)
(* The Rust code is recursive: handle_response loops over the elements of  *)
(* one response batch and, for an element with advice, calls handle_advice *)
(* which sends a new request and calls handle_response again.  The model   *)
(* keeps that call stack explicitly: one frame per active handle_response. *)
(* One step of the model is what the code does between two exchanges with  *)
(* the server, cut at batch elements: a public call up to its first        *)
(* response, the handling of one batch element, or the return of one       *)
(* handle_response.  The server's answers are the inputs.                  *)
(***************************************************************************)
EXTENDS Integers, Sequences, FiniteSets, TLC

VARIABLES
    client_id,       \* Client.client_id: NoId (None) or the bound id
    cookies,         \* Client.cookies: sequence of cookie values
    max_retries,     \* Client.max_retries (i8)
    actual_retries,  \* Client.actual_retries (i8)
    stack,           \* active handle_response calls, innermost last
    pc,              \* "idle" | "running" | "done" | "panicked"
    op,              \* the public operation in progress or just returned
    arg,             \* its argument (subscription or channel), NoArg if none
    result,          \* the Result the public operation returned
    log,             \* history: the exchanges of the operation, in order
    start            \* history: the session state when the operation began

vars == <<client_id, cookies, max_retries, actual_retries, stack, pc, op, arg,
          result, log, start>>

----------------------------------------------------------------------------
(* Bounds of the model *)

\* max_retries ranges over MinRetries..MaxRetries
MaxRetries == 1
\* a batch has at most MaxBatch elements
MaxBatch == 2

(* Program constants *)

\* i8::MAX, the largest value of max_retries and actual_retries
I8Max == 127
\* Client::new sets max_retries to 1
DefaultRetries == 1

\* the least max_retries of the model: a negative budget never retries
MinRetries == 0 - 1
\* i8::MIN, what i8::MAX + 1 wraps to
I8Min == 0 - I8Max - 1

----------------------------------------------------------------------------
(* Values *)

NoId == "noid"
ClientIds == {"c1", "c2"}
NoArg == "noarg"
Topics == {"t1"}
NoError == "noerror"
ServerErrors == {"e1"}
NoAdvice == "absent"
Reconnect == {"retry", "handshake", "none"}

MsgNoClientId(o) ==
    CASE o = "connect" -> "No client id set for connect"
      [] o = "disconnect" -> "No client id set for disconnect"
      [] o = "subscribe" -> "No client id set for subscribe"
      [] o = "unsubscribe" -> "No client id set for unsubscribe"
      [] o = "publish" -> "No client id set for unsubscribe"
MsgMaxRetries == "Max retries reached"
MsgAdvisedNone == "Service advised not to reconnect nor handshake"
MsgSend == "Could not send request to server"
MsgBody == "Could not get the response body"
MsgParse == "Could not parse response"

Ok(resps) == [ok |-> TRUE, resps |-> resps, msg |-> ""]
Err(m) == [ok |-> FALSE, resps |-> <<>>, msg |-> m]
NoResult == [ok |-> FALSE, resps |-> <<>>, msg |-> "no result"]
NoStart == [client_id |-> NoId, cookies |-> <<>>, actual_retries |-> 0]

----------------------------------------------------------------------------
(* The server's answers: the inputs of the model *)

\* One element of a response batch.  hsId is the clientId of an element that
\* has the handshake shape (version, clientId and supportedConnectionTypes
\* present), NoId for an element without it.
Elem(h, s, e, a) == [hsId |-> h, successful |-> s, error |-> e, advice |-> a]

ServerElems ==
    {Elem(h, TRUE, NoError, NoAdvice) : h \in ClientIds}
    \cup {Elem("c1", TRUE, NoError, a) : a \in {"retry", "none"}}
    \cup {Elem("c2", FALSE, NoError, NoAdvice)}
    \cup {Elem(NoId, TRUE, NoError, a) : a \in {NoAdvice, "retry"}}
    \cup {Elem(NoId, FALSE, e, a) : e \in ServerErrors, a \in {NoAdvice} \cup Reconnect}
    \cup {Elem(NoId, FALSE, NoError, a) : a \in {NoAdvice, "none"}}

\* the elements of the batches of more than one element
BatchElems ==
    { Elem(NoId, TRUE, NoError, NoAdvice),
      Elem(NoId, FALSE, "e1", "retry"),
      Elem(NoId, FALSE, "e1", "none") }

\* k plain successes
Successes(k) == [i \in 1..k |-> Elem(NoId, TRUE, NoError, NoAdvice)]

\* The batches: the empty one, every single element, and the longer ones, which
\* end in a pair of BatchElems after plain successes.
Bodies ==
    {<<>>} \cup {<<e>> : e \in ServerElems}
    \cup {Successes(k) \o <<e1, e2>> :
            k \in 0..(MaxBatch - 2), e1 \in BatchElems, e2 \in BatchElems}

\* the cookies the server sets with a handshake-shaped answer: one jar per
\* session it opens
JarOf(id) == IF id = "c1" THEN <<"k1">> ELSE <<"k2">>

BodyCookies(b) ==
    IF \E i \in 1..Len(b) : b[i].hsId # NoId
    THEN JarOf(b[CHOOSE i \in 1..Len(b) : b[i].hsId # NoId].hsId)
    ELSE <<>>

\* What one exchange yields: a batch with the cookies of the HTTP response, or
\* a failure to send, to read the body, or to parse it.
Responses ==
    {[kind |-> "batch", body |-> b, cookies |-> BodyCookies(b)] : b \in Bodies}
    \cup {[kind |-> k, body |-> <<>>, cookies |-> <<>>] :
        k \in {"transport", "nobody", "garbage"}}

\* the clientId of a successful handshake-shaped element of the response
OkHandshakeId(r) ==
    IF \E i \in 1..Len(r.body) : r.body[i].hsId # NoId /\ r.body[i].successful
    THEN r.body[CHOOSE i \in 1..Len(r.body) :
                    r.body[i].hsId # NoId /\ r.body[i].successful].hsId
    ELSE NoId

\* What the history keeps of a response: whether every element of the batch is
\* a failure with an error string and retry advice, a failure with handshake
\* advice, or a success without advice.
Class(r) ==
    CASE r.kind # "batch" -> "failure"
      [] r.kind = "batch" /\ r.body = <<>> -> "empty"
      [] r.kind = "batch" /\ r.body # <<>>
            /\ \A i \in 1..Len(r.body) :
                  /\ ~r.body[i].successful
                  /\ r.body[i].error # NoError
                  /\ r.body[i].advice = "retry" -> "errored_retry"
      [] r.kind = "batch" /\ r.body # <<>>
            /\ \A i \in 1..Len(r.body) :
                  /\ ~r.body[i].successful
                  /\ r.body[i].advice = "handshake" -> "failed_handshake"
      [] r.kind = "batch" /\ r.body # <<>>
            /\ \A i \in 1..Len(r.body) :
                  /\ r.body[i].successful
                  /\ r.body[i].advice = NoAdvice -> "success"
      [] OTHER -> "other"

----------------------------------------------------------------------------
(* Classification of a response body *)

\* ErroredResponse: a required error string on a failed response
IsErrored(e) == e.error # NoError /\ ~e.successful

\* serde_json::from_str::<Vec<ErroredResponse>>: every element is Errored
ParsesAsErrored(body) == \A i \in 1..Len(body) : IsErrored(body[i])

\* Response::Handshake: the element has the handshake shape
IsHandshake(e) == e.hsId # NoId

\* the message of a failed exchange
FailureMsg(r) ==
    CASE r.kind = "transport" -> MsgSend
      [] r.kind = "nobody" -> MsgBody
      [] r.kind = "garbage" -> MsgParse

----------------------------------------------------------------------------
(* Pieces of the handlers *)

\* self.actual_retries += 1 on an i8: wraps in a release build
Bump(x) == IF x = I8Max THEN I8Min ELSE x + 1

\* ... and panics in a debug build
MayPanic(x) == IF x = I8Max THEN BOOLEAN ELSE {FALSE}

\* a budget test that stops one attempt earlier
WithinBudgetStrict(ar, mx) == ar < mx

\* the retry budget test of handle_advice
WithinBudget(ar, mx) == ar <= mx

\* error.unwrap_or(default)
UnwrapOr(error, default) == IF error = NoError THEN default ELSE error

\* connect() forgets to reset the counter
ResetsRetriesInitOnly(o) == o \in {"init"}

\* the operations that reset actual_retries before they return
ResetsRetries(o) == o \in {"init", "connect"}

\* the cookies stored by an accepted handshake
StoredCookies(old, new) == new

\* a handshake response with successful = false clears the session
StoredClientIdClearsOnFailure(old, e) == IF e.successful THEN e.hsId ELSE NoId

\* a bound client id is kept: a later handshake does not replace it
StoredClientIdKeepsFirst(old, e) == IF old = NoId THEN e.hsId ELSE old

\* the client id stored by an accepted handshake
StoredClientId(old, e) == e.hsId

\* the frame of a handle_response call on batch r, called from ret
Frame(r, ret) ==
    [rest |-> r.body, acc |-> <<>>, cookies |-> r.cookies,
     errored |-> ParsesAsErrored(r.body), ret |-> ret]

Top == stack[Len(stack)]
Below == SubSeq(stack, 1, Len(stack) - 1)

\* the public operation o returns res
Finish(o, a, res, ar, lg) ==
    /\ pc' = "done"
    /\ op' = o
    /\ arg' = a
    /\ result' = res
    /\ stack' = <<>>
    /\ log' = lg
    /\ actual_retries' = IF ResetsRetries(o) THEN 0 ELSE ar

Panic ==
    /\ pc' = "panicked"
    /\ UNCHANGED <<op, arg, result, stack, log, actual_retries>>

\* an exchange that takes a failed send, read or parse for an empty batch
ExchangeSwallowsFailure(o, a, req, ar, stk, ret, r) ==
    /\ pc' = "running"
    /\ op' = o
    /\ arg' = a
    /\ result' = NoResult
    /\ stack' = Append(stk, Frame(r, ret))
    /\ log' = Append(log, [req |-> req,
                           cid |-> IF req = "handshake" THEN NoId ELSE client_id,
                           arg |-> IF req \in {"handshake", "connect", "disconnect"}
                                   THEN NoArg ELSE a,
                           cls |-> Class(r),
                           okHs |-> OkHandshakeId(r),
                           cookies |-> r.cookies])
    /\ actual_retries' = ar

\* send_request followed by handle_response's reading and parsing of the answer
Exchange(o, a, req, ar, stk, ret, r) ==
    LET lg == Append(log, [req |-> req,
                           cid |-> IF req = "handshake" THEN NoId ELSE client_id,
                           arg |-> IF req \in {"handshake", "connect", "disconnect"}
                                   THEN NoArg ELSE a,
                           cls |-> Class(r),
                           okHs |-> OkHandshakeId(r),
                           cookies |-> r.cookies])
    IN IF r.kind = "batch"
       THEN /\ pc' = "running"
            /\ op' = o
            /\ arg' = a
            /\ result' = NoResult
            /\ stack' = Append(stk, Frame(r, ret))
            /\ log' = lg
            /\ actual_retries' = ar
       ELSE Finish(o, a, Err(FailureMsg(r)), ar, lg)

\* Client::retry
Retry(o, a, stk, ret) ==
    \E panics \in MayPanic(actual_retries) :
        IF panics THEN Panic
        ELSE IF client_id = NoId
             THEN Finish(o, a, Err(MsgNoClientId("connect")), Bump(actual_retries), log)
             ELSE \E r \in Responses :
                    Exchange(o, a, "connect", Bump(actual_retries), stk, ret, r)

\* a re-handshake that shares its unit of budget with the connect after it
RetryHandshakeShared(o, a, stk, ret) ==
    \E r \in Responses :
        Exchange(o, a, "handshake", actual_retries, stk, ret, r)

\* Client::retry_handshake
RetryHandshake(o, a, stk, ret) ==
    \E panics \in MayPanic(actual_retries) :
        IF panics THEN Panic
        ELSE \E r \in Responses :
                Exchange(o, a, "handshake", Bump(actual_retries), stk, ret, r)

\* advice none skips the element and the loop goes on
HandleAdviceSkipsNone(advice, error, stk) ==
    CASE advice = "handshake" ->
            IF WithinBudget(actual_retries, max_retries)
            THEN RetryHandshake(op, arg, stk, "rehs")
            ELSE Finish(op, arg, Err(UnwrapOr(error, MsgMaxRetries)), actual_retries, log)
      [] advice = "retry" ->
            IF WithinBudget(actual_retries, max_retries)
            THEN Retry(op, arg, stk, "retry")
            ELSE Finish(op, arg, Err(UnwrapOr(error, MsgMaxRetries)), actual_retries, log)
      [] advice = "none" ->
            /\ stack' = stk
            /\ UNCHANGED <<pc, op, arg, result, log, actual_retries>>

\* Client::handle_advice
HandleAdvice(advice, error, stk) ==
    CASE advice = "handshake" ->
            IF WithinBudget(actual_retries, max_retries)
            THEN RetryHandshake(op, arg, stk, "rehs")
            ELSE Finish(op, arg, Err(UnwrapOr(error, MsgMaxRetries)), actual_retries, log)
      [] advice = "retry" ->
            IF WithinBudget(actual_retries, max_retries)
            THEN Retry(op, arg, stk, "retry")
            ELSE Finish(op, arg, Err(UnwrapOr(error, MsgMaxRetries)), actual_retries, log)
      [] advice = "none" ->
            Finish(op, arg, Err(UnwrapOr(error, MsgAdvisedNone)), actual_retries, log)

\* an error without advice is retried
HandleErrorRetries(e, stk) ==
    IF e.advice # NoAdvice
    THEN HandleAdvice(e.advice, e.error, stk)
    ELSE HandleAdvice("retry", e.error, stk)

\* Client::handle_error
HandleError(e, stk) ==
    IF e.advice # NoAdvice
    THEN HandleAdvice(e.advice, e.error, stk)
    ELSE Finish(op, arg, Err(e.error), actual_retries, log)

----------------------------------------------------------------------------
(* The state machine *)

Init ==
    /\ client_id = NoId
    /\ cookies = <<>>
    /\ max_retries = DefaultRetries
    /\ actual_retries = 0
    /\ stack = <<>>
    /\ pc = "idle"
    /\ op = "none"
    /\ arg = NoArg
    /\ result = NoResult
    /\ log = <<>>
    /\ start = NoStart

Snapshot == [client_id |-> client_id, cookies |-> cookies,
             actual_retries |-> actual_retries]

\* Client::set_retries
SetRetries ==
    /\ pc = "idle"
    /\ \E n \in MinRetries..MaxRetries : max_retries' = n
    /\ UNCHANGED <<client_id, cookies, actual_retries, stack, pc, op, arg,
                   result, log, start>>

\* Client::init, through Client::handshake, up to the first response
CallInit ==
    /\ pc = "idle"
    /\ start' = Snapshot
    /\ RetryHandshake("init", NoArg, <<>>, "top")
    /\ UNCHANGED <<client_id, cookies, max_retries>>

\* Client::connect up to the first response
CallConnect ==
    /\ pc = "idle"
    /\ start' = Snapshot
    /\ Retry("connect", NoArg, <<>>, "top")
    /\ UNCHANGED <<client_id, cookies, max_retries>>

\* disconnect, subscribe, unsubscribe and publish up to the first response
Direct(o, a) ==
    /\ pc = "idle"
    /\ start' = Snapshot
    /\ IF client_id = NoId
       THEN Finish(o, a, Err(MsgNoClientId(o)), actual_retries, log)
       ELSE \E r \in Responses : Exchange(o, a, o, actual_retries, <<>>, "top", r)
    /\ UNCHANGED <<client_id, cookies, max_retries>>

CallDisconnect == Direct("disconnect", NoArg)

CallSubscribe == \E t \in Topics : Direct("subscribe", t)

CallUnsubscribe == \E t \in Topics : Direct("unsubscribe", t)

CallPublish == \E t \in Topics : Direct("publish", t)

\* handle_response: one turn of its loop over the batch
HandleElement ==
    /\ pc = "running"
    /\ Top.rest # <<>>
    /\ LET e == Head(Top.rest)
           stk == Append(Below, [Top EXCEPT !.rest = Tail(Top.rest)])
       IN IF Top.errored
          THEN /\ HandleError(e, stk)
               /\ UNCHANGED <<client_id, cookies>>
          ELSE IF e.advice # NoAdvice
               THEN /\ HandleAdvice(e.advice, NoError, stk)
                    /\ UNCHANGED <<client_id, cookies>>
               ELSE /\ IF IsHandshake(e)
                       THEN /\ client_id' = StoredClientId(client_id, e)
                            /\ cookies' = StoredCookies(cookies, Top.cookies)
                       ELSE UNCHANGED <<client_id, cookies>>
                    /\ stack' = Append(Below,
                                  [Top EXCEPT !.rest = Tail(Top.rest),
                                              !.acc = Append(Top.acc, e)])
                    /\ UNCHANGED <<pc, op, arg, result, log, actual_retries>>
    /\ UNCHANGED <<max_retries, start>>

\* init() goes on to connect once its handshake has returned Ok
ReturnInitConnects ==
    /\ pc = "running"
    /\ Top.rest = <<>>
    /\ CASE Top.ret = "top" ->
                IF op = "init"
                THEN Retry(op, arg, Below, "retry")
                ELSE Finish(op, arg, Ok(Top.acc), actual_retries, log)
         [] Top.ret = "retry" ->
                IF Below = <<>>
                THEN Finish(op, arg, Ok(Top.acc), actual_retries, log)
                ELSE /\ stack' = Append(SubSeq(Below, 1, Len(Below) - 1),
                                   [Below[Len(Below)] EXCEPT
                                       !.acc = Below[Len(Below)].acc \o Top.acc])
                     /\ UNCHANGED <<pc, op, arg, result, log, actual_retries>>
         [] Top.ret = "rehs" ->
                Retry(op, arg, Below, "retry")
    /\ UNCHANGED <<client_id, cookies, max_retries, start>>

\* handle_response returns Ok(responses) to its caller
Return ==
    /\ pc = "running"
    /\ Top.rest = <<>>
    /\ CASE Top.ret = "top" ->
                Finish(op, arg, Ok(Top.acc), actual_retries, log)
         [] Top.ret = "retry" ->
                /\ stack' = Append(SubSeq(Below, 1, Len(Below) - 1),
                              [Below[Len(Below)] EXCEPT
                                  !.acc = Below[Len(Below)].acc \o Top.acc])
                /\ UNCHANGED <<pc, op, arg, result, log, actual_retries>>
         [] Top.ret = "rehs" ->
                Retry(op, arg, Below, "retry")
    /\ UNCHANGED <<client_id, cookies, max_retries, start>>

\* the caller takes the result; the client is ready for the next call
Returned ==
    /\ pc = "done"
    /\ pc' = "idle"
    /\ op' = "none"
    /\ arg' = NoArg
    /\ result' = NoResult
    /\ log' = <<>>
    /\ start' = NoStart
    /\ UNCHANGED <<client_id, cookies, max_retries, actual_retries, stack>>

Next ==
    \/ SetRetries
    \/ CallInit
    \/ CallConnect
    \/ CallDisconnect
    \/ CallSubscribe
    \/ CallUnsubscribe
    \/ CallPublish
    \/ HandleElement
    \/ Return
    \/ Returned

Spec == Init /\ [][Next]_vars

----------------------------------------------------------------------------
(* The client of the test handshake_if_advises_to: init() and connect()
   against a server that answers every handshake with a success and every
   connect with one failure that carries an error string and handshake advice *)

\* the largest budget set_retries is called with
MaxBudget == 4

\* the least one: negative budgets never retry
MinBudget == 0 - 2

\* the answer to the request sent by this step, if it sent one
HandshakeAdvisingAnswer ==
    log' # log
    => (/\ pc' = "running"
        /\ Len(stack'[Len(stack')].rest) = 1
        /\ IF log'[Len(log')].req = "handshake"
           THEN /\ log'[Len(log')].cls = "success"
                /\ log'[Len(log')].okHs # NoId
           ELSE log'[Len(log')].cls = "failed_handshake")

\* Client::set_retries with a budget of MinBudget..MaxBudget
SetRetriesBudget ==
    /\ pc = "idle"
    /\ \E n \in MinBudget..MaxBudget : max_retries' = n
    /\ UNCHANGED <<client_id, cookies, actual_retries, stack, pc, op, arg,
                   result, log, start>>

InitAdvised == CallInit /\ HandshakeAdvisingAnswer

ConnectAdvised == CallConnect /\ HandshakeAdvisingAnswer

HandleElementAdvised == HandleElement /\ HandshakeAdvisingAnswer

NextHandshakeAdvice ==
    \/ SetRetriesBudget
    \/ InitAdvised
    \/ ConnectAdvised
    \/ HandleElementAdvised
    \/ Return
    \/ Returned

SpecHandshakeAdvice == Init /\ [][NextHandshakeAdvice]_vars

----------------------------------------------------------------------------
(* Reading the history *)

Sent(kind) == Cardinality({i \in 1..Len(log) : log[i].req = kind})

\* every answer to a request of that kind was of that class
AllAnswers(kind, cls) == \A i \in 1..Len(log) : log[i].req = kind => log[i].cls = cls

LastReq == log[Len(log)].req

SessionOps == {"connect", "subscribe", "unsubscribe", "publish", "disconnect"}

\* the element handle_response turns to next
Current == Head(Top.rest)

AtElement == pc = "running" /\ Top.rest # <<>>

\* the first response of the operation is one element, about to be handled
AtOnlyElement ==
    /\ AtElement
    /\ Len(stack) = 1
    /\ Len(log) = 1
    /\ Top.acc = <<>>
    /\ Len(Top.rest) = 1

----------------------------------------------------------------------------
(* Claims *)

\* C1: with max_retries = N >= 0 and a bound session, when every connect
\* response is a failure with an error string and retry advice, connect()
\* sends exactly N + 1 connect requests and returns the server's error.
C1_RetrySendsNPlusOne ==
    (/\ pc = "done"
     /\ op = "connect"
     /\ start.client_id # NoId
     /\ max_retries >= 0
     /\ AllAnswers("connect", "errored_retry"))
    => (/\ Sent("connect") = max_retries + 1
        /\ Len(log) = max_retries + 1
        /\ ~result.ok
        /\ result.msg \in ServerErrors)

\* C2: init() on a handshake response with successful = true returns Ok, binds
\* the response's clientId and stores exactly the response's cookies.
C2_HandshakeSuccessBinds ==
    (/\ pc = "done"
     /\ op = "init"
     /\ Len(log) >= 1
     /\ log[1].okHs # NoId)
    => (/\ result.ok
        /\ client_id = log[1].okHs
        /\ cookies = log[1].cookies)

\* C3: connect, subscribe, unsubscribe, publish and disconnect called with no
\* client id bound return an error, send no request and leave the client id,
\* the cookies and the retry counter as they were.
C3_SessionRequired ==
    (/\ pc = "done"
     /\ op \in SessionOps
     /\ start.client_id = NoId)
    => (/\ ~result.ok
        /\ log = <<>>
        /\ client_id = start.client_id
        /\ cookies = start.cookies
        /\ actual_retries = start.actual_retries)

\* C3 witness: connect() has returned on a client with no client id bound
C3_Witness ==
    /\ pc = "done"
    /\ op = "connect"
    /\ start.client_id = NoId
    /\ result = Err(MsgNoClientId("connect"))

\* C4: a failed response with advice reconnect=none ends the operation at once
\* with an error, the server's error message when the response has one, and no
\* further request is sent.
C4_NoneAdviceFailsAtOnce ==
    [][(AtElement /\ ~Current.successful /\ Current.advice = "none")
        => (/\ pc' = "done"
            /\ ~result'.ok
            /\ log' = log
            /\ (Current.error # NoError => result'.msg = Current.error))]_vars

\* C5: a failed response without advice, with or without an error string, ends
\* the operation at once with an error and no further request is sent.
C5_NoAdviceFailsAtOnce ==
    [][(AtElement /\ ~Current.successful /\ Current.advice = NoAdvice)
        => (/\ pc' = "done"
            /\ ~result'.ok
            /\ log' = log)]_vars

\* C6: init() whose handshake is answered by one failed response with an error
\* string and no advice returns that error string as its error, sends no
\* further request and leaves the client id (and the cookies) as they were.
C6_HandshakeFailureSurfaces ==
    [][(/\ AtOnlyElement
        /\ op = "init"
        /\ ~Current.successful
        /\ Current.error # NoError
        /\ Current.advice = NoAdvice)
        => (/\ pc' = "done"
            /\ result' = Err(Current.error)
            /\ log' = log
            /\ client_id' = start.client_id
            /\ cookies' = start.cookies)]_vars

\* C6 witness: init() on a fresh client has failed with the server's error
\* after its one handshake request
C6_Witness ==
    /\ pc = "done"
    /\ op = "init"
    /\ Len(log) = 1
    /\ log[1].req = "handshake"
    /\ result = Err("e1")
    /\ client_id = NoId

\* C7: during connect(), the request after a connect answered by a failure
\* with handshake advice is a handshake, and a connect follows a handshake only
\* when that handshake was answered with successful = true (an empty answer,
\* which holds no failure, is let through).
C7_RehandshakeBeforeConnect ==
    op = "connect" =>
        \A i \in 1..(Len(log) - 1) :
            /\ (log[i].req = "connect" /\ log[i].cls = "failed_handshake")
                  => log[i + 1].req = "handshake"
            /\ (log[i].req = "handshake" /\ log[i + 1].req = "connect")
                  => log[i].cls \in {"success", "empty"}

\* C8 as stated: a re-handshake and the connect retry after it raise the retry
\* counter by one, so the counter counts the connect requests only.
C8_PairCostsOne ==
    (pc = "running" /\ op = "connect" /\ LastReq = "connect")
    => actual_retries = start.actual_retries + Sent("connect")

\* C8 amended: the re-handshake and the connect retry after it each raise the
\* retry counter by one, two for the pair: while connect() runs, the counter
\* has risen by the number of connect and handshake requests sent.
C8_PairCostsTwo ==
    (pc = "running" /\ op = "connect")
    => actual_retries =
            start.actual_retries + Sent("connect") + Sent("handshake")

\* C8 witness: connect() has sent a connect, a re-handshake and the connect
\* retry after it
C8_Witness ==
    /\ pc = "running"
    /\ op = "connect"
    /\ Len(log) = 3
    /\ log[1].req = "connect"
    /\ log[2].req = "handshake"
    /\ log[3].req = "connect"
    /\ actual_retries = start.actual_retries + 3

\* a connect() on the session that init() bound, every connect answered by a
\* failure with handshake advice and every handshake by a success
HandshakeAdviceRun ==
    /\ pc = "done"
    /\ op = "connect"
    /\ start.client_id # NoId
    /\ AllAnswers("connect", "failed_handshake")
    /\ AllAnswers("handshake", "success")

\* the re-handshakes of such a connect(): the k-th connect leaves the counter
\* at 2k - 1, and a re-handshake follows it while 2k - 1 <= mx
Rehandshakes(mx) == IF mx < 0 THEN 0 ELSE (mx + 1) \div 2

C10_InitHandshakesThenConnects ==
    (pc = "done" /\ op = "init" /\ result.ok)
    => (/\ Len(log) = 2
        /\ log[1].req = "handshake"
        /\ log[2].req = "connect")

\* C10 amended: an init() whose handshake is answered by a success without
\* advice returns Ok having sent that one handshake request and no connect.
C10_InitOnlyHandshakes ==
    (pc = "done" /\ op = "init" /\ Len(log) >= 1 /\ log[1].cls = "success")
    => (/\ result.ok
        /\ Len(log) = 1
        /\ log[1].req = "handshake"
        /\ Sent("connect") = 0)

\* C10 witness: init() has returned Ok and bound a session
C10_Witness ==
    /\ pc = "done"
    /\ op = "init"
    /\ result.ok
    /\ log[1].cls = "success"
    /\ client_id # NoId

\* the request a top-level operation sends first
RequestOf(o) == IF o = "init" THEN "handshake" ELSE o

\* C11: disconnect() on a bound session sends exactly one request, its
\* disconnect, whatever the response: it never follows advice.
C11_DisconnectSingleAttempt ==
    (op = "disconnect" /\ start.client_id # NoId)
    => (/\ Len(log) = 1
        /\ log[1].req = "disconnect")

\* C12: the request sent after a failed response with retry advice is of the
\* kind of the top-level operation, with its arguments: a handshake for init,
\* a subscribe, unsubscribe or publish on the same channel, a connect for
\* connect.
C12_RetrySameOperation ==
    \A i \in 1..(Len(log) - 1) :
        log[i].cls = "errored_retry"
        => (/\ log[i + 1].req = RequestOf(op)
            /\ log[i + 1].arg = log[1].arg)

\* C13: the retry counter is 0 whenever a public operation may start and
\* whenever one has returned, with Ok or with an error.
C13_CounterScopedToOperation ==
    pc \in {"idle", "done"} => actual_retries = 0

\* C14: no operation returns Ok with a response whose successful flag is false.
C14_NoFailureReturnedAsOk ==
    (pc = "done" /\ result.ok)
    => \A i \in 1..Len(result.resps) : result.resps[i].successful

TransportAndParseErrors == {MsgSend, MsgBody, MsgParse}

\* C15: a request that cannot be sent, a body that cannot be read and a batch
\* that does not parse end the operation at once with their error: no request
\* follows, whatever budget remains, and the result holds no response.
C15_TransportFailureIsTerminal ==
    \A i \in 1..Len(log) :
        log[i].cls = "failure"
        => (/\ i = Len(log)
            /\ pc = "done"
            /\ ~result.ok
            /\ result.msg \in TransportAndParseErrors
            /\ result.resps = <<>>)

\* C15 witness: subscribe() has returned the transport error of its connect
\* retry, with retry budget left
C15_Witness ==
    /\ pc = "done"
    /\ op = "subscribe"
    /\ Len(log) = 2
    /\ log[1].cls = "errored_retry"
    /\ log[2].cls = "failure"
    /\ WithinBudget(actual_retries, max_retries)
    /\ result = Err(MsgSend)

\* C16: client_id is set or changed only by the handling of a response to a
\* handshake request that has the handshake shape and successful = true.
C16_OnlySuccessfulHandshakeBinds ==
    [][client_id' # client_id
        => (/\ AtElement
            /\ LastReq = "handshake"
            /\ IsHandshake(Current)
            /\ Current.successful)]_vars

AllSuccessful(resps) == \A i \in 1..Len(resps) : resps[i].successful

\* C17: while the batch answering an operation holds only responses with
\* successful = true, handling one of them sends no request and raises no
\* error, with or without advice on it: the response joins the result.
C17_SuccessfulBatchReturnsOk ==
    [][(/\ AtElement
        /\ Len(stack) = 1
        /\ Len(log) = 1
        /\ AllSuccessful(Top.acc)
        /\ AllSuccessful(Top.rest))
        => (/\ log' = log
            /\ pc' = "running"
            /\ stack' = <<[Top EXCEPT !.rest = Tail(Top.rest),
                                      !.acc = Append(Top.acc, Current)]>>)]_vars

\* handling element e of a batch ends in a give-up: its advice is none, its
\* advice is retry or handshake with the budget spent, or it is an Errored
\* response without advice
GivesUp(e, errored) ==
    \/ e.advice = "none"
    \/ e.advice \in {"retry", "handshake"}
          /\ ~WithinBudget(actual_retries, max_retries)
    \/ errored /\ e.advice = NoAdvice

\* C18: the element of a batch that forces a give-up ends the operation with
\* an error: the later elements of the batch are not handled, no request is
\* sent and none of the responses accumulated so far is returned.
C18_GiveUpAbortsBatch ==
    [][(AtElement /\ GivesUp(Current, Top.errored))
        => (/\ pc' = "done"
            /\ ~result'.ok
            /\ result'.resps = <<>>
            /\ stack' = <<>>
            /\ log' = log)]_vars

\* C18 witness: a give-up in the batch answering a retry, with a later element
\* of that batch still to handle and responses accumulated by the caller
C18_Witness ==
    /\ AtElement
    /\ GivesUp(Current, Top.errored)
    /\ Len(Top.rest) = 2
    /\ Len(stack) = 2
    /\ stack[1].acc # <<>>

\* C19: an element with an error string and successful = false is handled as
\* Errored whatever the other elements of its batch are: without advice it ends
\* the operation with its error message, and when its advice ends the
\* operation (none, or the budget is spent) the error is its error message.
C19_ErroredClassifiedPerElement ==
    [][(AtElement /\ IsErrored(Current))
        => (/\ Current.advice = NoAdvice
                  => (pc' = "done" /\ result' = Err(Current.error))
            /\ GivesUp(Current, TRUE)
                  => (pc' = "done" /\ result' = Err(Current.error)))]_vars

\* C20: every connect, subscribe, unsubscribe, publish and disconnect request
\* carries a client id; the first request of an operation carries the one
\* bound when the operation was called, and the request that follows an
\* accepted successful handshake carries the client id of that handshake.
C20_RequestsCarryBoundId ==
    /\ \A i \in 1..Len(log) :
          log[i].req \in SessionOps => log[i].cid # NoId
    /\ (Len(log) >= 1 /\ log[1].req \in SessionOps)
          => log[1].cid = start.client_id
    /\ \A i \in 1..(Len(log) - 1) :
          (/\ log[i].req = "handshake"
           /\ log[i].cls = "success"
           /\ log[i].okHs # NoId
           /\ log[i + 1].req \in SessionOps)
          => log[i + 1].cid = log[i].okHs

\* C20 witness: connect() has re-handshaked into another session and its
\* connect retry carries the new client id
C20_Witness ==
    /\ op = "connect"
    /\ Len(log) = 3
    /\ log[1].req = "connect"
    /\ log[2].req = "handshake"
    /\ log[2].cls = "success"
    /\ log[3].req = "connect"
    /\ log[2].okHs # start.client_id
    /\ log[3].cid = log[2].okHs
    /\ log[1].cid = start.client_id

\* C22: once a client id is bound, no step of any operation returns the client
\* to the unbound state.
C22_ClientIdNeverCleared ==
    [][client_id # NoId => client_id' # NoId]_vars

\* C22 witness: a disconnect() has returned Ok and the client id bound before
\* it is still bound
C22_Witness ==
    /\ pc = "done"
    /\ op = "disconnect"
    /\ result.ok
    /\ start.client_id # NoId
    /\ client_id = start.client_id

----------------------------------------------------------------------------
(* The client with the largest retry budgets, against a server that answers
   every handshake with a success and every other request with one failure
   that carries an error string and retry advice *)

\* the budgets set_retries is called with: i8::MAX and the one below it
HighRetries == {I8Max - 1, I8Max}

\* the requests of one operation the model follows: past the most that any
\* budget allows when the counter does not overflow
MaxRequests == 2 * I8Max + 4

\* the answer to the request sent by this step, if it sent one
StubbornAnswer ==
    log' # log
    => (/\ pc' = "running"
        /\ Len(stack'[Len(stack')].rest) = 1
        /\ IF log'[Len(log')].req = "handshake"
           THEN /\ log'[Len(log')].cls = "success"
                /\ log'[Len(log')].okHs = "c1"
           ELSE log'[Len(log')].cls = "errored_retry")

\* Client::set_retries with a budget of HighRetries
SetRetriesHigh ==
    /\ pc = "idle"
    /\ \E n \in HighRetries : max_retries' = n
    /\ UNCHANGED <<client_id, cookies, actual_retries, stack, pc, op, arg,
                   result, log, start>>

InitAnswered == CallInit /\ StubbornAnswer

ConnectAnswered == CallConnect /\ StubbornAnswer

SubscribeAnswered == CallSubscribe /\ StubbornAnswer

HandleElementAnswered ==
    /\ Len(log) < MaxRequests
    /\ HandleElement
    /\ StubbornAnswer

NextOverflow ==
    \/ SetRetriesHigh
    \/ InitAnswered
    \/ ConnectAnswered
    \/ SubscribeAnswered
    \/ HandleElementAnswered
    \/ Return
    \/ Returned

SpecOverflow == Init /\ [][NextOverflow]_vars

\* the most requests one operation sends under a budget of mx when the counter
\* counts them: the first one, at most mx + 1 requests that pass the budget
\* test, and one connect after each re-handshake among them
RequestBound(mx) == IF mx < 0 THEN 1 ELSE 2 * mx + 3

\* C21: every operation sends at most RequestBound(max_retries) requests,
\* whatever the server answers and whatever max_retries is.
C21_RequestsBoundedByBudget ==
    Len(log) <= RequestBound(max_retries)

\* C23: the retry counter stays within 0..127 during every operation, for
\* every max_retries: no increment overflows, by wrapping or by a panic.
C23_CounterNeverOverflows ==
    /\ actual_retries \in 0..I8Max
    /\ pc # "panicked"

====
